---------------------------- MODULE Spec2Model ----------------------------
(***************************************************************************)
(* A model of the price-scraping pipeline: the five source scrapers        *)
(* (1electropunto.py .. 5electromisiones.py), the retry-wrapped HTTP       *)
(* session they use, the orchestrator main.py, and the sheet naming of the  *)
(* Excel export 6listas_en_excel.py.                                       *)
(*                                                                         *)
(* Six specifications share the module:                                    *)
(*   SpecExtract  the per-container extraction loop of one rendered page   *)
(*   Spec         whole runs of one scraper against one site and database  *)
(*   SpecFetch    one GET through the retry-mounted session                *)
(*   SpecMain     the orchestrator's loop over the script list             *)
(*   SpecScroll   the scroll loop of one dynamically rendered page         *)
(*   SpecSheet    one call of sanitize_sheet_name                          *)
(* Each leaves the variables of the others untouched.                      *)
(*                                                                         *)
(* Text is a sequence of one-character strings, so that strip(), slicing,  *)
(* joining and lexicographic sorting are computed, not assumed.            *)
(***************************************************************************)
EXTENDS Integers, Sequences, FiniteSets, TLC

VARIABLES
    \* ---- SpecExtract: one page going through the per-container loop
    exKind,      \* which scraper's loop
    exNodes,     \* the product containers detected on the page
    exIdx,       \* index of the next container to process
    exOut,       \* per container handled so far, the records it produced
    exLocals,    \* product_name, product_price as the last iteration left them
    exDay,       \* the calendar day datetime.now() reports

    \* ---- Spec: runs of one scraper
    kind,        \* which scraper
    site,        \* what the remote site serves (the same for every run)
    base_urls,   \* the script's list of base URLs, by its length
    pc,          \* position of the script
    run,         \* number of the current run (1-based)
    today,       \* calendar day of the current run
    conn,        \* "none" | "open" | "closed"   (sqlite3 connection)
    browser,     \* "none" | "open" | "closed"   (WebDriver / requests session)
    tableOk,     \* the destination table exists
    table,       \* committed rows of the destination table
    txn,         \* rows inserted in the open transaction, not yet committed
    bi,          \* index of the base URL being processed
    pg,          \* iluminar: page number being probed
    todo,        \* electrolineas: page URLs still to scrape for this base URL
    cur,         \* iluminar: current_url_products
    batch,       \* records accumulated in memory for the final insert
    unit,        \* records extracted for the current logical unit (history)
    base0,       \* len(table) when the current run started (history)
    fetchLog,    \* every page request of the current run, in order (history)
    dbError,     \* a storage error was raised during the current run (history)
    exitCode,    \* process result of the finished run
    runLog,      \* per finished run: rows it committed, storage error seen (history)

    \* ---- SpecFetch: one session.get through the retry adapter
    fKind,       \* which script issues the GET
    fPc,         \* "send" | "returned" | "raised"
    fRetry,      \* Retry.total still available
    fSent,       \* status codes answered so far, one per GET sent
    fResult,     \* what the caller sees

    \* ---- SpecMain: the orchestrator
    mIdx,        \* index of the script in the list (for-loop variable)
    mPc,         \* "loop" | "running" | "exited"
    mStarted,    \* scripts started so far, in order (history)
    mResults,    \* what became of each script handled so far (history)
    mRunning,    \* sub-processes alive right now
    overall_success,
    mExit,       \* sys.exit status

    \* ---- SpecScroll: the scroll loop of one dynamically rendered page
    sKind,       \* which script scrolls
    sPc,         \* "loop" | "after" | "done" | "raised"
    sHeights,    \* every scrollHeight measured, the initial one first (history)
    last_height,
    scroll_attempts,
    consecutive_no_change,
    sStop,       \* how the loop was left: "stable" | "bound" | "error" (history)
    sTimedOut,   \* a readyState wait timed out and was logged (history)
    sWarned,     \* the "Exceeded ... scroll attempts" warning was logged
    sExtracted,  \* driver.page_source was read and handed to the extraction

    \* ---- SpecSheet: one call of sanitize_sheet_name (6listas_en_excel.py)
    shPc,            \* "call" | "loop" | "returned"
    table_name,      \* the argument name as passed (history)
    sheet_name,      \* the local variable name
    existing_names,
    counter,
    original_name,
    suffix

exVars   == <<exKind, exNodes, exIdx, exOut, exLocals, exDay>>
runVars  == <<kind, site, base_urls, pc, run, today, conn, browser, tableOk, table, txn,
              bi, pg, todo, cur, batch, unit, base0, fetchLog, dbError, exitCode,
              runLog>>
fVars    == <<fKind, fPc, fRetry, fSent, fResult>>
mVars    == <<mIdx, mPc, mStarted, mResults, mRunning, overall_success, mExit>>
sVars    == <<sKind, sPc, sHeights, last_height, scroll_attempts,
              consecutive_no_change, sStop, sTimedOut, sWarned, sExtracted>>
shVars   == <<shPc, table_name, sheet_name, existing_names, counter, original_name,
              suffix>>
vars     == <<exVars, runVars, fVars, mVars, sVars, shVars>>

---------------------------------------------------------------------------
(* Bounds of the model *)

MaxNodes == 3        \* product containers on one page (SpecExtract)
MaxRuns  == 2        \* consecutive runs of a scraper against one database
MaxReal  == 2        \* listing pages of a site that really hold products
MaxScrolls == 17     \* scroll attempts followed in a loop that has no bound of its own
MaxTaken == 100      \* suffixed sheet names already taken when sanitize_sheet_name is called

---------------------------------------------------------------------------
(* Text *)

Min(a, b) == IF a < b THEN a ELSE b

RECURSIVE Rep(_, _)
Rep(c, n) == IF n = 0 THEN <<>> ELSE <<c>> \o Rep(c, n - 1)

IsSpace(c) == c = " "

RECURSIVE LStrip(_)
LStrip(s) == IF s = <<>> THEN s
             ELSE IF IsSpace(Head(s)) THEN LStrip(Tail(s)) ELSE s

RECURSIVE RStrip(_)
RStrip(s) == IF s = <<>> THEN s
             ELSE IF IsSpace(s[Len(s)]) THEN RStrip(SubSeq(s, 1, Len(s) - 1)) ELSE s

\* str.strip()
Strip(s) == RStrip(LStrip(s))

\* s[:n]
Slice(s, n) == SubSeq(s, 1, Min(n, Len(s)))

RECURSIVE Concat(_)
Concat(ss) == IF ss = <<>> THEN <<>> ELSE Head(ss) \o Concat(Tail(ss))

\* ''.join(parts)
JoinTight(parts) == Concat(parts)

\* ' '.join(parts)
RECURSIVE JoinSpace(_)
JoinSpace(parts) ==
    IF parts = <<>> THEN <<>>
    ELSE IF Len(parts) = 1 THEN parts[1]
    ELSE parts[1] \o <<" ">> \o JoinSpace(Tail(parts))

\* "No disponible"
Sentinel == <<"N","o"," ","d","i","s","p","o","n","i","b","l","e">>

\* "Error en parseo - "
ErrorMarker == <<"E","r","r","o","r"," ","e","n"," ","p","a","r","s","e","o"," ","-"," ">>

\* the slice bound of str(e)[:50]
ErrCut == 50

---------------------------------------------------------------------------
(* Markup: what the selectors of a scraper find inside one product container *)

Kinds == {"electropunto", "casadelaslamparas", "iluminar", "electrolineas",
          "electromisiones"}

\* The result of find()/select_one(): nothing, or an element with its text nodes.
NoMatch == [found |-> FALSE, frags |-> <<>>]
Found(frags) == [found |-> TRUE, frags |-> frags]

\* element.text: the concatenation of the element's text nodes
ElemText(m) == Concat(m.frags)

\* How many lookups each scraper makes for the name and for the price.
\*   electropunto       name: the container itself;  price: outer div, inner div
\*   casadelaslamparas  name: <a>, name div;         price: outer div, inner span
\*   iluminar           name: 1 selector;            price: 5 candidates
\*   electrolineas      name: 2 candidates;          price: 4 candidates
\*   electromisiones    name: 1 selector group;      price: 1 selector group
NumNameSel(k) ==
    CASE k = "electropunto"      -> 1
      [] k = "casadelaslamparas" -> 2
      [] k = "iluminar"          -> 1
      [] k = "electrolineas"     -> 2
      [] k = "electromisiones"   -> 1

NumPriceSel(k) ==
    CASE k = "electropunto"      -> 2
      [] k = "casadelaslamparas" -> 2
      [] k = "iluminar"          -> 5
      [] k = "electrolineas"     -> 4
      [] k = "electromisiones"   -> 1

\* A record as stored: (Fecha, Descripcion, Precio).  Fecha is the calendar day;
\* strftime("%d/%m/%Y") is one-to-one on days, so the day stands for its text.
Rec(day, desc, price) == <<day, desc, price>>

\* products_found.append((fecha_actual, f"Error en parseo - {product_name}", str(e)[:50]))
ErrRecUncut(day, name, msg) == Rec(day, ErrorMarker \o name, msg)
ErrRec(day, name, msg) == Rec(day, ErrorMarker \o name, Slice(msg, ErrCut))

\* for selector in price_selectors: el = select_one(selector); if el: break
RECURSIVE CascadeFrom(_, _)
CascadeFrom(cands, i) ==
    IF i > Len(cands) THEN NoMatch
    ELSE IF cands[i].found THEN cands[i]
    ELSE CascadeFrom(cands, i + 1)

\* The cascade with the loop's break left out: the last match stands.
CascadeLast(cands) ==
    IF \A i \in 1..Len(cands) : ~cands[i].found THEN NoMatch
    ELSE cands[CHOOSE i \in 1..Len(cands) :
                   cands[i].found /\ \A j \in (i + 1)..Len(cands) : ~cands[j].found]
Cascade(cands) == CascadeFrom(cands, 1)

\* product_name = "No disponible"; product_price = "No disponible"
\* at the top of every iteration (pn, pp: what the previous iteration left).
ItemDefaultsStale(pn, pp) == <<pn, pp>>
ItemDefaults(pn, pp) == <<Sentinel, Sentinel>>

\* price_text_parts = [s.strip() for s in el.find_all(string=True) if s.strip()]
RECURSIVE PriceTextParts(_)
PriceTextParts(frags) ==
    IF frags = <<>> THEN <<>>
    ELSE LET t == Strip(Head(frags))
         IN  (IF t = <<>> THEN <<>> ELSE <<t>>) \o PriceTextParts(Tail(frags))

\* What one iteration yields: the records appended and the loop's locals.
Out(recs, name, price) == [recs |-> recs, locals |-> <<name, price>>]

\* 3iluminar.py, one iteration of the loop of process_products_from_soup
IluminarItem(node, day, pn, pp) ==
    LET d == ItemDefaults(pn, pp)
    IN  IF node.exc = "name" THEN Out(<<ErrRec(day, d[1], node.msg)>>, d[1], d[2])
        ELSE
        LET ne   == node.names[1]
            name == IF ne.found THEN Strip(ElemText(ne)) ELSE d[1]
        IN  IF node.exc = "price" THEN Out(<<ErrRec(day, name, node.msg)>>, name, d[2])
            ELSE
            LET pe    == Cascade(node.prices)
                price == IF pe.found THEN Strip(ElemText(pe)) ELSE d[2]
            IN  Out(<<Rec(day, name, price)>>, name, price)

\* 4electrolineas.py, one iteration of the product loop
ElectrolineasItem(node, day, pn, pp) ==
    LET d == ItemDefaults(pn, pp)
    IN  IF node.exc = "name" THEN Out(<<ErrRec(day, d[1], node.msg)>>, d[1], d[2])
        ELSE
        LET ne   == IF node.names[1].found THEN node.names[1] ELSE node.names[2]
            name == IF ne.found THEN Strip(ElemText(ne)) ELSE d[1]
        IN  IF node.exc = "price" THEN Out(<<ErrRec(day, name, node.msg)>>, name, d[2])
            ELSE
            LET pe    == Cascade(node.prices)
                price == IF pe.found THEN Strip(ElemText(pe)) ELSE d[2]
            IN  Out(<<Rec(day, name, price)>>, name, price)

\* 5electromisiones.py, one iteration of the product loop
ElectromisionesItem(node, day, pn, pp) ==
    LET d == ItemDefaults(pn, pp)
    IN  IF node.exc = "name" THEN Out(<<ErrRec(day, d[1], node.msg)>>, d[1], d[2])
        ELSE
        LET ne   == node.names[1]
            name == IF ne.found THEN Strip(ElemText(ne)) ELSE d[1]
        IN  IF node.exc = "price" THEN Out(<<ErrRec(day, name, node.msg)>>, name, d[2])
            ELSE
            LET pe    == node.prices[1]
                parts == PriceTextParts(pe.frags)
                price == IF pe.found
                         THEN (IF parts # <<>> THEN JoinSpace(parts) ELSE Sentinel)
                         ELSE d[2]
            IN  Out(<<Rec(day, name, price)>>, name, price)

\* 2casadelaslamparas.py, one iteration of the product loop: an exception
\* skips the item (continue), nothing is appended.
CasaItem(node, day, pn, pp) ==
    LET d == ItemDefaults(pn, pp)
    IN  IF node.exc = "name" THEN Out(<<>>, d[1], d[2])
        ELSE
        LET link == node.names[1]
            nd   == node.names[2]
            name == IF link.found /\ nd.found THEN Strip(ElemText(nd)) ELSE d[1]
        IN  IF node.exc = "price" THEN Out(<<>>, name, d[2])
            ELSE
            LET outer == node.prices[1]
                inner == node.prices[2]
                price == IF link.found /\ outer.found /\ inner.found
                         THEN Strip(ElemText(inner)) ELSE d[2]
            IN  Out(<<Rec(day, name, price)>>, name, price)

\* 1electropunto.py, one iteration of the product loop.  The name is the text
\* of the container itself; the price default is set inside the iteration; the
\* record is INSERTed at once (insertOk: the INSERT did not raise).  Any
\* exception, the INSERT's included, skips the item.
ElectropuntoItem(node, day, pn, pp, insertOk) ==
    IF node.exc = "name" THEN Out(<<>>, pn, pp)
    ELSE
    LET name == Strip(ElemText(node.names[1]))
    IN  IF node.exc = "price" THEN Out(<<>>, name, Sentinel)
        ELSE
        LET outer == node.prices[1]
            inner == node.prices[2]
            price == IF outer.found /\ inner.found
                     THEN Strip(ElemText(inner)) ELSE Sentinel
        IN  Out(IF insertOk THEN <<Rec(day, name, price)>> ELSE <<>>, name, price)

Item(k, node, day, pn, pp, insertOk) ==
    CASE k = "electropunto"      -> ElectropuntoItem(node, day, pn, pp, insertOk)
      [] k = "casadelaslamparas" -> CasaItem(node, day, pn, pp)
      [] k = "iluminar"          -> IluminarItem(node, day, pn, pp)
      [] k = "electrolineas"     -> ElectrolineasItem(node, day, pn, pp)
      [] k = "electromisiones"   -> ElectromisionesItem(node, day, pn, pp)

---------------------------------------------------------------------------
(* The product containers the model feeds to the extraction loops *)

Digit(i) == <<"0","1","2","3","4","5","6","7","8","9">>[i + 1]

\* Text nodes of the element the i-th name lookup finds: padded with whitespace.
NameFrags(i) == << <<" ", "n", Digit(i), " ">> >>

\* Text nodes of the element the i-th price lookup finds: two text nodes, the
\* second with trailing whitespace.
PriceFrags(i) == << <<"$">>, <<Digit(i), " ">> >>

\* An element that holds only whitespace.
BlankFrags == << <<" ">> >>

\* An element with three text nodes: padded text, whitespace only, padded text.
MixedFrags == << <<" ", "$", " ">>, <<" ">>, <<" ", "1", "0", " ">> >>

\* A short exception text, and one longer than the slice bound.
ShortMsg == <<"K","e","y","E","r","r","o","r">>
LongMsg  == Rep("x", ErrCut + 2)

MkNode(names, prices, exc, msg) ==
    [names |-> names, prices |-> prices, exc |-> exc, msg |-> msg]

\* Lookup vectors: candidate i is found iff i \in S.
NameVec(k, S)  == [i \in 1..NumNameSel(k)  |-> IF i \in S THEN Found(NameFrags(i))  ELSE NoMatch]
PriceVec(k, S) == [i \in 1..NumPriceSel(k) |-> IF i \in S THEN Found(PriceFrags(i)) ELSE NoMatch]

AllNames(k)  == NameVec(k, 1..NumNameSel(k))
AllPrices(k) == PriceVec(k, 1..NumPriceSel(k))

\* The container itself is the name element of electropunto: always there.
NameVecs(k) ==
    IF k = "electropunto" THEN {AllNames(k)}
    ELSE {NameVec(k, S) : S \in SUBSET (1..NumNameSel(k))}

\* Price lookups: none found; a first one found at f and either every later
\* one too or none of them; only a blank element; or an element of several
\* text nodes, one of them blank.
PriceVecs(k) ==
    {PriceVec(k, {})}
    \cup {PriceVec(k, {f}) : f \in 1..NumPriceSel(k)}
    \cup {PriceVec(k, f..NumPriceSel(k)) : f \in 1..NumPriceSel(k)}
    \cup {[i \in 1..NumPriceSel(k) |-> Found(BlankFrags)]}
    \cup {[i \in 1..NumPriceSel(k) |-> Found(MixedFrags)]}

Catalog(k) ==
    {MkNode(nv, AllPrices(k), "none", <<>>) : nv \in NameVecs(k)}
    \cup {MkNode(AllNames(k), pv, "none", <<>>) : pv \in PriceVecs(k)}
    \cup {MkNode(NameVec(k, {}), PriceVec(k, {}), "none", <<>>) : x \in {k} \ {"electropunto"}}
    \cup {MkNode(AllNames(k), AllPrices(k), "name", LongMsg),
          MkNode(AllNames(k), AllPrices(k), "price", ShortMsg)}

Pages(k, n) == UNION {[1..m -> Catalog(k)] : m \in 0..n}

---------------------------------------------------------------------------
(* Idle values: what a specification gives the variables it does not use *)

ExIdle ==
    /\ exKind = "none" /\ exNodes = <<>> /\ exIdx = 1 /\ exOut = <<>>
    /\ exLocals = <<Sentinel, Sentinel>> /\ exDay = 0

FIdle ==
    /\ fKind = "none" /\ fPc = "idle" /\ fRetry = 0 /\ fSent = <<>>
    /\ fResult = "none"

MIdle ==
    /\ mIdx = 0 /\ mPc = "idle" /\ mStarted = <<>> /\ mResults = <<>>
    /\ mRunning = {}
    /\ overall_success = TRUE /\ mExit = -1

SIdle ==
    /\ sKind = "none" /\ sPc = "idle" /\ sHeights = <<>> /\ last_height = 0
    /\ scroll_attempts = 0 /\ consecutive_no_change = 0 /\ sStop = "none"
    /\ sTimedOut = FALSE /\ sWarned = FALSE /\ sExtracted = FALSE

ShIdle ==
    /\ shPc = "idle" /\ table_name = <<>> /\ sheet_name = <<>>
    /\ existing_names = {} /\ counter = 0 /\ original_name = <<>> /\ suffix = 0

RunIdle ==
    /\ kind = "none" /\ site = <<>> /\ base_urls = 0 /\ pc = "idle" /\ run = 0 /\ today = 0
    /\ conn = "none" /\ browser = "none" /\ tableOk = FALSE
    /\ table = <<>> /\ txn = <<>> /\ bi = 0 /\ pg = 0 /\ todo = <<>>
    /\ cur = <<>> /\ batch = <<>> /\ unit = <<>> /\ base0 = 0 /\ fetchLog = <<>>
    /\ dbError = FALSE /\ exitCode = -1 /\ runLog = <<>>

---------------------------------------------------------------------------
(* SpecExtract: the per-container loop over one rendered page *)

ExInit ==
    /\ exKind \in Kinds
    /\ exNodes \in Pages(exKind, MaxNodes)
    /\ exIdx = 1
    /\ exOut = <<>>
    /\ exLocals = <<Sentinel, Sentinel>>
    /\ exDay = 0
    /\ RunIdle /\ FIdle /\ MIdle /\ SIdle /\ ShIdle

\* One iteration of "for product_div in product_divs".
ExItem ==
    /\ exIdx <= Len(exNodes)
    /\ \E insertOk \in (IF exKind = "electropunto" THEN BOOLEAN ELSE {TRUE}) :
         LET o == Item(exKind, exNodes[exIdx], exDay, exLocals[1], exLocals[2], insertOk)
         IN  /\ exOut' = Append(exOut, o.recs)
             /\ exLocals' = o.locals
    /\ exIdx' = exIdx + 1
    /\ UNCHANGED <<exKind, exNodes, exDay, runVars, fVars, mVars, sVars, shVars>>

\* The clock passes midnight while the loop is running: datetime.now(), called
\* at the top of every iteration, reports the next day from then on.  The
\* loop over one parsed page is over long before a second midnight.
ExMidnight ==
    /\ exKind \in Kinds
    /\ exIdx <= Len(exNodes)
    /\ exDay = 0
    /\ exDay' = exDay + 1
    /\ UNCHANGED <<exKind, exNodes, exIdx, exOut, exLocals, runVars, fVars, mVars, sVars, shVars>>

ExNext == ExItem \/ ExMidnight

SpecExtract == ExInit /\ [][ExNext]_vars

ExDone == exKind \in Kinds /\ exIdx > Len(exNodes)

RECURSIVE SumLen(_)
SumLen(ss) == IF ss = <<>> THEN 0 ELSE Len(Head(ss)) + SumLen(Tail(ss))

---------------------------------------------------------------------------
(* C1 *)

HasErrorMarker(desc) ==
    Len(desc) >= Len(ErrorMarker) /\ SubSeq(desc, 1, Len(ErrorMarker)) = ErrorMarker

\* C1: for every page processed by any scraper the number of records produced
\* equals the number of product containers detected, and a container whose
\* parsing raises still yields exactly one, error-tagged, record.
\* (Stated as claimed; 1electropunto.py and 2casadelaslamparas.py skip the
\* container instead.)
C1_RecordCountEqualsNodeCount ==
    ExDone =>
        /\ SumLen(exOut) = Len(exNodes)
        /\ \A i \in 1..Len(exNodes) :
              exNodes[i].exc # "none" =>
                  /\ Len(exOut[i]) = 1
                  /\ HasErrorMarker(exOut[i][1][2])

---------------------------------------------------------------------------
(* C11 *)

\* The scrapers whose except branch appends an error record.
ErrorRecordKinds == {"iluminar", "electrolineas", "electromisiones"}

\* C11: in iluminar, electrolineas and electromisiones a container whose
\* parsing raises yields exactly one record; its description starts with
\* "Error en parseo - " and its price is the exception text cut to at most 50
\* characters (the whole text when it is no longer than that); the containers
\* after it are processed all the same: every container handled so far has
\* yielded exactly one record, and the loop goes through the whole page.
C11_ErrorRecordEmitted ==
    exKind \in ErrorRecordKinds =>
        /\ Len(exOut) = exIdx - 1
        /\ exIdx <= Len(exNodes) + 1
        /\ \A i \in 1..Len(exOut) :
              /\ Len(exOut[i]) = 1
              /\ exNodes[i].exc # "none" =>
                    LET r == exOut[i][1]
                        m == exNodes[i].msg
                    IN  /\ HasErrorMarker(r[2])
                        /\ Len(r[3]) <= 50
                        /\ Len(r[3]) = (IF Len(m) <= 50 THEN Len(m) ELSE 50)
                        /\ \A j \in 1..Len(r[3]) : r[3][j] = m[j]

\* A page of three containers: the first raises with a text longer than 50
\* characters, the second raises with a short text, the third parses; each
\* yields one record.
C11_Witness ==
    /\ exKind = "electrolineas" /\ ExDone /\ Len(exNodes) = 3
    /\ exNodes[1].exc = "name" /\ Len(exNodes[1].msg) > 50
    /\ exNodes[2].exc = "price" /\ Len(exNodes[2].msg) < 50
    /\ exNodes[3].exc = "none"
    /\ Len(exOut[1][1][3]) = 50 /\ exOut[2][1][3] = exNodes[2].msg
    /\ HasErrorMarker(exOut[1][1][2]) /\ HasErrorMarker(exOut[2][1][2])
    /\ ~HasErrorMarker(exOut[3][1][2])

---------------------------------------------------------------------------
(* C8 *)

\* No price lookup succeeds inside the container.
NoPriceMatch(k, node) ==
    CASE k \in {"electropunto"}      -> ~(node.prices[1].found /\ node.prices[2].found)
      [] k \in {"casadelaslamparas"} -> ~(node.names[1].found /\ node.prices[1].found
                                           /\ node.prices[2].found)
      [] OTHER                       -> \A i \in 1..Len(node.prices) : ~node.prices[i].found

\* No name lookup succeeds inside the container.
NoNameMatch(k, node) ==
    CASE k \in {"electropunto"}      -> FALSE
      [] k \in {"casadelaslamparas"} -> ~(node.names[1].found /\ node.names[2].found)
      [] OTHER                       -> \A i \in 1..Len(node.names) : ~node.names[i].found

\* The lowest candidate that matches.
FirstFound(ms) == CHOOSE i \in 1..Len(ms) : ms[i].found /\ \A j \in 1..(i - 1) : ~ms[j].found

\* What the container's own markup yields as name and as price.
OwnName(k, node) ==
    IF NoNameMatch(k, node) THEN Sentinel
    ELSE CASE k = "casadelaslamparas" -> Strip(ElemText(node.names[2]))
           [] OTHER -> Strip(ElemText(node.names[FirstFound(node.names)]))

OwnPrice(k, node) ==
    IF NoPriceMatch(k, node) THEN Sentinel
    ELSE CASE k \in {"electropunto", "casadelaslamparas"} -> Strip(ElemText(node.prices[2]))
           [] k = "electromisiones" ->
                 LET parts == PriceTextParts(node.prices[1].frags)
                 IN  IF parts = <<>> THEN Sentinel ELSE JoinSpace(parts)
           [] OTHER -> Strip(ElemText(node.prices[FirstFound(node.prices)]))

\* C8: for every container whose parsing does not raise, a missing price gives
\* the sentinel price with the extracted name, a missing name gives the sentinel
\* description with the extracted price, and every record's fields are what its
\* own container's markup yields, whatever the other containers of the page hold.
C8_SentinelOnlyForMissingField ==
    \A i \in 1..Len(exOut) :
        LET node == exNodes[i] IN
        (node.exc = "none" /\ exOut[i] # <<>>) =>
            LET r == exOut[i][1] IN
            /\ NoPriceMatch(exKind, node) => r[3] = Sentinel /\ r[2] = OwnName(exKind, node)
            /\ NoNameMatch(exKind, node)  => r[2] = Sentinel /\ r[3] = OwnPrice(exKind, node)
            /\ r[2] = OwnName(exKind, node)
            /\ r[3] = OwnPrice(exKind, node)

\* A finished iluminar page of three containers, the second without any price
\* element: its record carries the sentinel price and its extracted name, the
\* records around it carry their own prices.
C8_Witness ==
    /\ exKind = "iluminar" /\ ExDone /\ Len(exNodes) = 3
    /\ \A i \in 1..3 : exNodes[i].exc = "none" /\ ~NoNameMatch(exKind, exNodes[i])
    /\ ~NoPriceMatch(exKind, exNodes[1])
    /\ NoPriceMatch(exKind, exNodes[2])
    /\ ~NoPriceMatch(exKind, exNodes[3])
    /\ exOut[2][1][3] = Sentinel /\ exOut[2][1][2] # Sentinel
    /\ exOut[1][1][3] # Sentinel /\ exOut[3][1][3] # Sentinel

---------------------------------------------------------------------------
(* C21 *)

\* The scrapers that try a list of candidate selectors one after the other.
CascadeKinds == {"iluminar", "electrolineas"}

---------------------------------------------------------------------------
(* C23 *)

\* The text nodes of an element that are not blank, in document order.
NonBlank(frags) == SelectSeq(frags, LAMBDA f : \E i \in 1..Len(f) : ~IsSpace(f[i]))

\* C23: in electromisiones, for every container whose parsing does not raise
\* and whose price selector matches, the recorded price is the non-blank text
\* fragments of the matched element in document order, each stripped of its
\* surrounding whitespace, with exactly one space before every fragment but
\* the first; it is "No disponible" when the element has no non-blank text.
C23_FragmentsJoinedBySingleSpace ==
    exKind = "electromisiones" =>
        \A i \in 1..Len(exOut) :
            LET node == exNodes[i] IN
            (node.exc = "none" /\ node.prices[1].found) =>
                LET r  == exOut[i][1]
                    nb == NonBlank(node.prices[1].frags)
                IN  /\ nb = <<>> => r[3] = Sentinel
                    /\ nb # <<>> =>
                          r[3] = Concat([j \in 1..Len(nb) |->
                                           IF j = 1 THEN Strip(nb[1])
                                           ELSE <<" ">> \o Strip(nb[j])])

\* A page of three containers: the price element of the first has the text
\* nodes " $ ", " " and " 10 " and gives "$ 10"; that of the second has "$"
\* and a digit; that of the third holds only whitespace and gives the sentinel.
C23_Witness ==
    /\ exKind = "electromisiones" /\ ExDone /\ Len(exNodes) = 3
    /\ \A i \in 1..3 : exNodes[i].exc = "none" /\ exNodes[i].prices[1].found
    /\ exNodes[1].prices[1].frags = MixedFrags
    /\ exOut[1][1][3] = <<"$", " ", "1", "0">>
    /\ Len(exNodes[2].prices[1].frags) = 2
    /\ exOut[2][1][3] = <<"$", " ", "1">>
    /\ exNodes[3].prices[1].frags = BlankFrags
    /\ exOut[3][1][3] = Sentinel

---------------------------------------------------------------------------
(* C24 *)

\* C24 as claimed: all records produced while the pages of a run are
\* processed carry one and the same capture date, even when midnight passes
\* meanwhile.  (Stated on the records of one page, which all belong to one
\* run; every script reads the clock anew for each container.)
C24_OneCaptureDate ==
    \A i, k \in 1..Len(exOut) :
        \A j \in 1..Len(exOut[i]) :
            \A l \in 1..Len(exOut[k]) : exOut[i][j][1] = exOut[k][l][1]

---------------------------------------------------------------------------
(* SpecFetch: one session.get(url) through the adapter mounted by           *)
(* create_session_with_retries() (electrolineas, electromisiones), or one   *)
(* plain requests.get(url) (electropunto), followed by raise_for_status().  *)

FetchKinds == {"electropunto", "electrolineas", "electromisiones"}
RetryKinds == {"electrolineas", "electromisiones"}

\* Retry(total=5, ...): the number of retries allowed after the first attempt.
\* requests.get without a mounted Retry allows none.
RetryTotalMore(k) == IF k \in RetryKinds THEN 6 ELSE 0
RetryTotal(k) == IF k \in RetryKinds THEN 5 ELSE 0

\* status_forcelist=[500, 502, 503, 504]
StatusForcelist(k) == IF k \in RetryKinds THEN {500, 502, 503, 504} ELSE {}

\* Retry's defaults, which the constructor call leaves alone:
\* respect_retry_after_header=True, RETRY_AFTER_STATUS_CODES = {413, 429, 503}
RetryAfterStatusCodes == {413, 429, 503}

\* What the server may answer to one GET: a status, with or without a
\* Retry-After header; status 0 stands for a connection error or read timeout.
Answers ==
    {[status |-> c, ra |-> FALSE] : c \in {0, 200, 404, 429, 500, 502, 503, 504}}
    \cup {[status |-> 429, ra |-> TRUE]}

\* Retry.is_retry(method="GET", status_code, has_retry_after), total = retries left
IsRetry(k, total, a) ==
    \/ a.status \in StatusForcelist(k)
    \/ total # 0 /\ a.ra /\ a.status \in RetryAfterStatusCodes

FInit ==
    /\ fKind \in FetchKinds
    /\ fPc = "send"
    /\ fRetry = RetryTotal(fKind)
    /\ fSent = <<>>
    /\ fResult = "none"
    /\ ExIdle /\ RunIdle /\ MIdle /\ SIdle /\ ShIdle

\* One GET and what the adapter does with the answer: retry (Retry.increment,
\* is_exhausted when a count drops below zero), hand the response back, or raise.
FSend ==
    /\ fPc = "send"
    /\ \E a \in Answers :
         /\ fSent' = Append(fSent, a)
         /\ IF a.status = 0 \/ IsRetry(fKind, fRetry, a)
            THEN IF fRetry - 1 < 0
                 THEN /\ fPc' = "done"
                      /\ fResult' = IF a.status = 0 THEN "ConnectionError" ELSE "RetryError"
                      /\ fRetry' = fRetry - 1
                 ELSE /\ fPc' = "send"
                      /\ fResult' = fResult
                      /\ fRetry' = fRetry - 1
            ELSE /\ fPc' = "done"
                 /\ fResult' = IF a.status >= 400 THEN "HTTPError" ELSE "ok"
                 /\ fRetry' = fRetry
    /\ UNCHANGED <<fKind, exVars, runVars, mVars, sVars, shVars>>

FNext == FSend

SpecFetch == FInit /\ [][FNext]_vars

Transient(a) == a.status \in {500, 502, 503, 504}
Is4xx(a) == a.status >= 400 /\ a.status < 500
AllTransient == \A i \in 1..Len(fSent) : Transient(fSent[i])

---------------------------------------------------------------------------
(* SpecMain: main.py *)

scripts == <<"1electropunto.py", "2casadelaslamparas.py", "3iluminar.py",
             "4electrolineas.py", "5electromisiones.py", "6listas_en_excel.py",
             "7envio_email.py">>

\* What can become of one subprocess.run(..., check=True):
\*   "ok"        return code 0
\*   "nonzero"   CalledProcessError (return code # 0; a missing script file
\*               makes python exit with 2)
\*   "notfound"  FileNotFoundError (the interpreter cannot be started)
\*   "error"     any other exception raised before the child has returned
\*               (PermissionError, OSError, ...)
\*   "raised0"   the child returned 0 and subprocess.run still raised: its
\*               captured output is not valid UTF-8 (UnicodeDecodeError)
Results == {"ok", "nonzero", "notfound", "error", "raised0"}

\* The child process of the script ran and its return code was 0.
ReturnedZero(r) == r \in {"ok", "raised0"}

\* overall_success after one more script: every except branch sets it False,
\* nothing sets it back.
TrackLast(flag, r) == r = "ok"
Track(flag, r) == flag /\ r = "ok"

\* The for statement: the next script, whatever became of this one.
NextScriptAbort(i, result) == IF result = "ok" THEN i + 1 ELSE Len(scripts) + 1
NextScript(i, result) == i + 1

MInit ==
    /\ mIdx = 1
    /\ mPc = "loop"
    /\ mStarted = <<>>
    /\ mResults = <<>>
    /\ mRunning = {}
    /\ overall_success = TRUE
    /\ mExit = -1
    /\ ExIdle /\ RunIdle /\ FIdle /\ SIdle /\ ShIdle

\* subprocess.run is entered; the child is spawned, or spawning raises.
MStart ==
    /\ mPc = "loop" /\ mIdx <= Len(scripts)
    /\ mStarted' = Append(mStarted, mIdx)
    /\ \/ /\ mRunning' = mRunning \cup {mIdx}
          /\ mPc' = "running"
          /\ UNCHANGED <<mIdx, mResults, overall_success>>
       \/ \E r \in {"notfound", "error"} :
          /\ mResults' = Append(mResults, r)
          /\ overall_success' = Track(overall_success, r)
          /\ mIdx' = NextScript(mIdx, r)
          /\ UNCHANGED <<mRunning, mPc>>
    /\ UNCHANGED <<mExit, exVars, runVars, fVars, sVars, shVars>>

\* subprocess.run returns or raises once the child has terminated.
MWait ==
    /\ mPc = "running"
    /\ \E r \in {"ok", "nonzero", "error", "raised0"} :
         /\ mResults' = Append(mResults, r)
         /\ overall_success' = Track(overall_success, r)
         /\ mIdx' = NextScript(mIdx, r)
    /\ mRunning' = mRunning \ {mIdx}
    /\ mPc' = "loop"
    /\ UNCHANGED <<mStarted, mExit, exVars, runVars, fVars, sVars, shVars>>

\* sys.exit(0) / sys.exit(1) after the loop
MExit ==
    /\ mPc = "loop" /\ mIdx > Len(scripts)
    /\ mExit' = IF overall_success THEN 0 ELSE 1
    /\ mPc' = "exited"
    /\ UNCHANGED <<mIdx, mStarted, mResults, mRunning, overall_success,
                   exVars, runVars, fVars, sVars, shVars>>

MNext == MStart \/ MWait \/ MExit

SpecMain == MInit /\ [][MNext]_vars

\* C6: the scripts are started exactly once each, in list order, one at a time
\* (a script starts only when no other is alive), and when the orchestrator
\* exits every script of the list has been started, whatever failed before.
C6_AllScriptsOnceInOrder ==
    /\ \A i \in 1..Len(mStarted) : mStarted[i] = i
    /\ Cardinality(mRunning) <= 1
    /\ mRunning # {} => mPc = "running" /\ mRunning = {mStarted[Len(mStarted)]}
    /\ Len(mResults) + Cardinality(mRunning) = Len(mStarted)
    /\ mPc = "exited" => Len(mStarted) = Len(scripts) /\ mRunning = {}

\* The orchestrator has exited after a non-zero exit, a spawn failure and an
\* unexpected error of earlier scripts, and the last script still ran.
C6_Witness ==
    /\ mPc = "exited" /\ Len(mStarted) = Len(scripts)
    /\ mResults[1] = "nonzero" /\ mResults[2] = "notfound" /\ mResults[3] = "error"
    /\ mResults[Len(scripts)] = "ok"

\* C15 as claimed: the orchestrator exits with 0 if and only if every script
\* it ran returned exit code 0, with 1 otherwise, and only after every script
\* of the list has been attempted.
C15_ExitZeroIffAllReturnedZero ==
    /\ mPc = "exited" =>
          /\ Len(mResults) = Len(scripts)
          /\ mExit \in {0, 1}
          /\ mExit = 0 <=> \A i \in 1..Len(mResults) : ReturnedZero(mResults[i])
    /\ mPc \in {"loop", "running"} => mExit = -1

\* C15 (amended): the orchestrator exits with 0 if and only if every
\* subprocess.run call came back without raising (the script was started,
\* returned 0 and its output was captured); with 1 if any script could not be
\* run, returned non-zero or made subprocess.run raise anything else; and
\* only after every script of the list has been attempted.
C15_ExitZeroIffNoRunRaised ==
    /\ mPc = "exited" =>
          /\ Len(mResults) = Len(scripts)
          /\ mExit \in {0, 1}
          /\ mExit = 0 <=> \A i \in 1..Len(mResults) : mResults[i] = "ok"
          /\ overall_success <=> mExit = 0
    /\ mPc \in {"loop", "running"} => mExit = -1

\* Every script returned 0 but the output of the first could not be decoded:
\* exit status 1, after all seven scripts.
C15_Witness ==
    /\ mPc = "exited" /\ mExit = 1 /\ Len(mResults) = Len(scripts)
    /\ mResults[1] = "raised0"
    /\ \A i \in 2..Len(scripts) : mResults[i] = "ok"

---------------------------------------------------------------------------
(* SpecScroll: the scroll-until-stable loop of the two browser scripts:      *)
(* scroll_page_fully of 3iluminar.py and the while loop of                   *)
(* 2casadelaslamparas.py, up to the reading of driver.page_source.           *)

DynamicKinds == {"casadelaslamparas", "iluminar"}

\* "while scroll_attempts < 15"
ScrollBound == 15

\* "if consecutive_no_change >= 2"
StableChecks == 2

\* The loop condition: 3iluminar.py counts its attempts, 2casadelaslamparas.py
\* loops "while True".
ScrollOn(k, attempts) == IF k = "iluminar" THEN attempts < ScrollBound ELSE TRUE

\* Whether the loop is left after a measurement (same: new_height ==
\* last_height; count: consecutive_no_change after this measurement).
\* 2casadelaslamparas.py breaks on the first unchanged measurement,
\* 3iluminar.py on the second in a row.
StabilisedEarly(k, same, count) == same
Stabilised(k, same, count) ==
    IF k = "iluminar" THEN same /\ count >= StableChecks ELSE same

SInit ==
    /\ sKind \in DynamicKinds
    /\ sPc = "loop"
    /\ sHeights = <<1>>
    /\ last_height = 1
    /\ scroll_attempts = 0
    /\ consecutive_no_change = 0
    /\ sStop = "none"
    /\ sTimedOut = FALSE /\ sWarned = FALSE /\ sExtracted = FALSE
    /\ ExIdle /\ RunIdle /\ FIdle /\ MIdle /\ ShIdle

\* One iteration: scroll to the bottom, wait for readyState (a timeout of the
\* wait is logged and ignored), measure, compare.  The page may have grown or
\* not; the counters of 3iluminar.py do not exist in 2casadelaslamparas.py.
Scroll ==
    /\ sPc = "loop" /\ ScrollOn(sKind, scroll_attempts)
    /\ Len(sHeights) - 1 < MaxScrolls
    /\ \E timeout \in BOOLEAN, new_height \in {last_height, last_height + 1} :
         LET same  == new_height = last_height
             count == IF same THEN consecutive_no_change + 1 ELSE 0
         IN  /\ sTimedOut' = (sTimedOut \/ timeout)
             /\ sHeights' = Append(sHeights, new_height)
             /\ consecutive_no_change' = (IF sKind = "iluminar" THEN count ELSE 0)
             /\ IF Stabilised(sKind, same, count)
                THEN /\ sPc' = "after" /\ sStop' = "stable"
                     /\ UNCHANGED <<last_height, scroll_attempts>>
                ELSE /\ last_height' = new_height
                     /\ scroll_attempts' =
                            (IF sKind = "iluminar" THEN scroll_attempts + 1 ELSE 0)
                     /\ UNCHANGED <<sPc, sStop>>
    /\ UNCHANGED <<sKind, sWarned, sExtracted, exVars, runVars, fVars, mVars, shVars>>

\* execute_script raises WebDriverException: nothing in the loop catches it,
\* the page is given up by the caller's handler.
ScrollRaises ==
    /\ sPc = "loop" /\ ScrollOn(sKind, scroll_attempts)
    /\ Len(sHeights) - 1 < MaxScrolls
    /\ sPc' = "raised" /\ sStop' = "error"
    /\ UNCHANGED <<sKind, sHeights, last_height, scroll_attempts,
                   consecutive_no_change, sTimedOut, sWarned, sExtracted,
                   exVars, runVars, fVars, mVars, shVars>>

\* The while condition fails: scroll_attempts has reached 15.
ScrollExhausted ==
    /\ sPc = "loop" /\ ~ScrollOn(sKind, scroll_attempts)
    /\ sPc' = "after" /\ sStop' = "bound"
    /\ UNCHANGED <<sKind, sHeights, last_height, scroll_attempts,
                   consecutive_no_change, sTimedOut, sWarned, sExtracted,
                   exVars, runVars, fVars, mVars, shVars>>

\* After the loop: 3iluminar.py logs a warning when scroll_attempts >= 15;
\* then html = driver.page_source is read and parsed.
ScrollAfter ==
    /\ sPc = "after"
    /\ sWarned' = (sKind = "iluminar" /\ scroll_attempts >= ScrollBound)
    /\ sExtracted' = TRUE
    /\ sPc' = "done"
    /\ UNCHANGED <<sKind, sHeights, last_height, scroll_attempts,
                   consecutive_no_change, sStop, sTimedOut,
                   exVars, runVars, fVars, mVars, shVars>>

SNext == Scroll \/ ScrollRaises \/ ScrollExhausted \/ ScrollAfter

SpecScroll == SInit /\ [][SNext]_vars

\* Scroll attempts made so far: one measurement each, after the initial one.
Attempts == Len(sHeights) - 1

\* C12 as claimed: the scroll loop of both browser scripts makes at most 15
\* scroll attempts whatever the heights measured, and when the bound is
\* reached a warning is logged and the markup is still extracted.
C12_ScrollBounded ==
    sKind \in DynamicKinds =>
        /\ Attempts <= 15
        /\ (sPc = "done" /\ sStop = "bound") => sWarned /\ sExtracted

\* h[k] equals the measurement before it.
Unchanged(h, k) == k >= 2 /\ h[k] = h[k - 1]

\* h[k] ends two unchanged measurements in a row.
UnchangedTwice(h, k) == k >= 3 /\ h[k] = h[k - 1] /\ h[k - 1] = h[k - 2]

\* C19 as claimed: the loop is left at the first attempt whose measurement
\* equals the one before it (so it is never still running after such an
\* attempt, the bound apart), and never by stabilisation after a measurement
\* that changed.
C19_StopsAtFirstUnchanged ==
    sKind \in DynamicKinds =>
        /\ sPc = "loop" => \A k \in 1..Len(sHeights) : ~Unchanged(sHeights, k)
        /\ sStop = "stable" => Unchanged(sHeights, Len(sHeights))

\* C19 (amended): 2casadelaslamparas.py leaves the loop at the first attempt
\* whose measurement equals the one before it; 3iluminar.py at the first
\* attempt that is the second in a row to measure no change (three equal
\* measurements in a row), or after 15 attempts; neither leaves by
\* stabilisation after a measurement that changed.
C19_StopsWhenStable ==
    sKind \in DynamicKinds =>
        LET h == sHeights
            n == Len(sHeights)
        IN  /\ sStop = "stable" => Unchanged(h, n)
            /\ sKind = "casadelaslamparas" =>
                  /\ \A k \in 1..(n - 1) : ~Unchanged(h, k)
                  /\ sPc = "loop" => ~Unchanged(h, n)
                  /\ sStop \in {"none", "stable", "error"}
            /\ sKind = "iluminar" =>
                  /\ \A k \in 1..(n - 1) : ~UnchangedTwice(h, k)
                  /\ sPc = "loop" => ~UnchangedTwice(h, n)
                  /\ sStop = "stable" => UnchangedTwice(h, n) /\ Attempts <= 15
                  /\ sStop = "bound" => Attempts = 15 /\ ~UnchangedTwice(h, n)

\* 3iluminar.py scrolls on after one unchanged measurement and stops at the
\* second in a row.
C19_Witness ==
    /\ sKind = "iluminar" /\ sPc = "done" /\ sStop = "stable"
    /\ sHeights = <<1, 2, 2, 3, 3, 3>>
    /\ sExtracted

---------------------------------------------------------------------------
(* Spec: whole runs of one scraper.  URLs, sites and pages. *)

\* A URL is a sequence of numbers compared like a string, element by element:
\* <<b>> is the b-th base URL, <<b, n>> iluminar's f"{base_url}page/{n}/", and
\* <<b, d1, .., dk>> an href of electrolineas' pagination whose page number has
\* the decimal digits d1..dk.
BaseUrl(b) == <<b>>

\* page_url = f"{base_url}page/{page_num}/"
PageUrl(b, n) == <<b, n>>

\* u < v as Python compares strings
RECURSIVE LexLess(_, _)
LexLess(u, v) ==
    IF v = <<>> THEN FALSE
    ELSE IF u = <<>> THEN TRUE
    ELSE IF Head(u) < Head(v) THEN TRUE
    ELSE IF Head(u) > Head(v) THEN FALSE
    ELSE LexLess(Tail(u), Tail(v))

\* sorted(list(page_urls_to_scrape))
RECURSIVE SortUrls(_)
SortUrls(S) ==
    IF S = {} THEN <<>>
    ELSE LET m == CHOOSE x \in S : \A y \in S \ {x} : LexLess(x, y)
         IN  <<m>> \o SortUrls(S \ {m})

\* PagesToScrape without the sort: the page set walked base URL first and
\* then the links in the order the navigation lists them.
RECURSIVE InNavOrder(_, _)
InNavOrder(seen, links) ==
    IF links = <<>> THEN <<>>
    ELSE IF ~Head(links).hasHref \/ Head(links).href \in seen
         THEN InNavOrder(seen, Tail(links))
         ELSE <<Head(links).href>> \o InNavOrder(seen \cup {Head(links).href}, Tail(links))

\* len(base_urls) / len(urls) of each script
NumBase(k) ==
    CASE k = "electropunto"      -> 4
      [] k = "casadelaslamparas" -> 1
      [] k = "iluminar"          -> 2
      [] k = "electrolineas"     -> 4
      [] k = "electromisiones"   -> 5

\* MAX_PAGE_CHECK = 100
MAX_PAGE_CHECK == 100

\* "if page_num > 5" of the empty-page heuristic
EmptyPageThreshold == 5

\* What pages beyond the site's real ones look like to iluminar's probing.
\* "hiccup": the first page after the real ones times out once, the page after
\* it holds products, and the pages after that carry the not-found marker.
Tails == {"notfound", "notfoundProducts", "notice", "noticeProducts", "empty",
          "endless", "timeout", "wderror", "error", "hiccup"}

\* The pagination navigation electrolineas may find on a base URL.
NavKinds == {"none", "p23", "p210", "nohref", "self", "fallback"}

\* The sites a scraper may face.
\*   real    listing pages (iluminar, electrolineas) or base URLs (the others)
\*           that hold products
\*   tail    iluminar: what the pages after the real ones show
\*   p1      what the first request to base URL 1 meets (iluminar: page 1;
\*           electrolineas: the pagination request)
\*   nav     electrolineas: the pagination element of every base URL
\*   failAt  electrolineas: which scrape request of each base URL fails;
\*           the single-page scrapers: which base URL cannot be fetched
Sites(k) ==
    CASE k = "iluminar" ->
            [real : 0..MaxReal, tail : Tails, p1 : {"ok"},
             nav : {"none"}, failAt : {0}]
            \cup [real : 0..MaxReal, tail : {"notfound", "timeout"},
                  p1 : {"notfound", "error"}, nav : {"none"}, failAt : {0}]
      [] k = "electrolineas" ->
            [real : 0..MaxReal, tail : {"none"}, p1 : {"ok", "error"},
             nav : NavKinds, failAt : 0..2]
      [] k = "casadelaslamparas" ->
            [real : 0..MaxReal, tail : {"none"}, p1 : {"ok"}, nav : {"none"},
             failAt : 0..1]
      [] OTHER ->
            [real : 0..MaxReal, tail : {"none"}, p1 : {"ok"}, nav : {"none"},
             failAt : 0..2]

\* Text of the name element of container j on page n of base URL b.
RunName(b, n, j) ==
    <<" ", "b", Digit(b), "p", Digit((n \div 100) % 10), Digit((n \div 10) % 10),
      Digit(n % 10), "i", Digit(j), " ">>

\* Container j of a page: the first has every element, the second no price.
RunNode(k, b, n, j) ==
    MkNode([i \in 1..NumNameSel(k) |-> Found(<<RunName(b, n, j)>>)],
           IF j = 2 THEN PriceVec(k, {}) ELSE AllPrices(k),
           "none", <<>>)

RunNodes(k, b, n, cnt) == [j \in 1..cnt |-> RunNode(k, b, n, j)]

\* A rendered page as iluminar sees it.
Page(load, marker, notice, nodes) ==
    [load |-> load, marker |-> marker, notice |-> notice, nodes |-> nodes]

\* What the site answers to iluminar for page n of base URL b.
IluminarPage(s, b, n) ==
    IF n = 1 /\ b = 1 /\ s.p1 = "error" THEN Page("wderror", FALSE, FALSE, <<>>)
    ELSE IF n = 1 /\ b = 1 /\ s.p1 = "notfound"
         THEN Page("ok", TRUE, FALSE, RunNodes("iluminar", b, n, 1))
    ELSE IF n <= s.real THEN Page("ok", FALSE, FALSE, RunNodes("iluminar", b, n, 1 + ((b + n) % 2)))
    ELSE IF n = 1 THEN Page("ok", FALSE, FALSE, <<>>)
    ELSE CASE s.tail = "hiccup" ->
                IF n = s.real + 1 THEN Page("timeout", FALSE, FALSE, <<>>)
                ELSE IF n = s.real + 2
                     THEN Page("ok", FALSE, FALSE, RunNodes("iluminar", b, n, 1))
                     ELSE Page("ok", TRUE, FALSE, <<>>)
           [] s.tail = "notfound"         -> Page("ok", TRUE, FALSE, <<>>)
           [] s.tail = "notfoundProducts" -> Page("ok", TRUE, FALSE, RunNodes("iluminar", b, n, 1))
           [] s.tail = "notice"           -> Page("ok", FALSE, TRUE, <<>>)
           [] s.tail = "noticeProducts"   -> Page("ok", FALSE, TRUE, RunNodes("iluminar", b, n, 1))
           [] s.tail = "empty"            -> Page("ok", FALSE, FALSE, <<>>)
           [] s.tail = "endless"          -> Page("ok", FALSE, FALSE, RunNodes("iluminar", b, n, 1))
           [] OTHER                       -> Page(s.tail, FALSE, FALSE, <<>>)

\* A link tag of the pagination: <a class="page-numbers" href=...>, or one
\* without href.
Link(u) == [hasHref |-> TRUE, href |-> u]
NoHref  == [hasHref |-> FALSE, href |-> <<>>]

\* The pagination of base URL b: which selector finds it ("primary":
\* nav.woocommerce-pagination, "fallback": .products-footer nav, "none") and
\* its a.page-numbers links in document order.
Nav(s, b) ==
    CASE s.nav = "none"     -> [by |-> "none", links |-> <<>>]
      [] s.nav = "p23"      -> [by |-> "primary",
                                links |-> <<Link(<<b, 2>>), Link(<<b, 3>>), Link(<<b, 2>>)>>]
      [] s.nav = "p210"     -> [by |-> "primary",
                                links |-> <<Link(<<b, 2>>), Link(<<b, 1, 0>>)>>]
      [] s.nav = "nohref"   -> [by |-> "primary", links |-> <<NoHref, Link(<<b, 2>>)>>]
      [] s.nav = "self"     -> [by |-> "primary", links |-> <<Link(<<b>>), Link(<<b, 2>>)>>]
      [] s.nav = "fallback" -> [by |-> "fallback", links |-> <<Link(<<b, 3>>), Link(<<b, 2>>)>>]

\* The page number a URL of electrolineas stands for.
RECURSIVE DigitsValue(_, _)
DigitsValue(ds, acc) == IF ds = <<>> THEN acc ELSE DigitsValue(Tail(ds), 10 * acc + Head(ds))

UrlPageNo(u) == IF Len(u) = 1 THEN 1 ELSE DigitsValue(Tail(u), 0)

\* The product containers electrolineas finds at URL u.
ElectrolineasNodes(s, u) ==
    LET n == UrlPageNo(u)
    IN  IF n <= s.real THEN RunNodes("electrolineas", u[1], n, 1 + ((u[1] + n) % 2)) ELSE <<>>

\* The product containers a single-page scraper finds at base URL b.
SingleNodes(k, s, b) ==
    IF b <= s.real THEN RunNodes(k, b, 1, 1 + (b % 2)) ELSE <<>>

---------------------------------------------------------------------------
(* Spec: storage and the page loop shared by the scripts *)

\* conn.commit(): the rows of the open transaction are appended to the table.
CommitReplace(t, x) == x
CommitRows(t, x) == t \o x

\* conn.rollback(): the open transaction is dropped.
Rollback(x) == <<>>

\* The scripts catch every exception and run off their end: the interpreter
\* exits with status 0, whether or not a storage error was met.
ExitStatus(k, err) == 0

\* list.extend / list.append of the records of a page to those collected so
\* far (all_products_to_insert.append, current_url_products.extend,
\* all_products_globally.extend).
ExtendFront(acc, rows) == rows \o acc
Extend(acc, rows) == acc \o rows

\* The per-container loop over a whole page (mask[i]: electropunto's INSERT of
\* container i does not raise).
RECURSIVE ProcessFrom(_, _, _, _, _, _, _)
ProcessFrom(k, nodes, i, day, pn, pp, mask) ==
    IF i > Len(nodes) THEN <<>>
    ELSE LET o == Item(k, nodes[i], day, pn, pp, mask[i])
         IN  o.recs \o ProcessFrom(k, nodes, i + 1, day, o.locals[1], o.locals[2], mask)

AllOk(nodes) == [i \in 1..Len(nodes) |-> TRUE]

ProcessPage(k, nodes, day) == ProcessFrom(k, nodes, 1, day, Sentinel, Sentinel, AllOk(nodes))

\* One entry of the request log.
Req(b, url, phase, ok, notice, recs) ==
    [b |-> b, url |-> url, phase |-> phase, ok |-> ok, notice |-> notice, recs |-> recs]

\* Where a script goes once its loop over the base URLs is over.
LoopExit(k) ==
    CASE k = "electropunto"      -> "commit"
      [] k = "casadelaslamparas" -> "finally"
      [] OTHER                   -> "insert"

\* "for base_url in base_urls": the next iteration, or the end of the loop.
\* An empty list ends the loop before its first iteration.
AfterBase(k, b) == IF b < base_urls THEN "base" ELSE LoopExit(k)
EnterLoop(k) == AfterBase(k, 0)

\* except sqlite3.Error of the outer try: 4electrolineas.py and
\* 5electromisiones.py roll back, the other scripts only log.
OuterHandler(k, x) == IF k \in {"electrolineas", "electromisiones"} THEN Rollback(x) ELSE x

\* Where a script goes when sqlite3.connect or CREATE TABLE raises: to the
\* handlers of the outer try and from there to finally.
OnSetupErrorGoOn(k) == IF k = "electropunto" THEN EnterLoop(k) ELSE "session"
OnSetupError(k) == "finally"

Init ==
    /\ kind \in Kinds
    /\ site \in Sites(kind)
    /\ base_urls \in {0, NumBase(kind)}
    /\ pc = "start" /\ run = 1 /\ today = 0
    /\ conn = "none" /\ browser = "none" /\ tableOk = FALSE
    /\ table = <<>> /\ txn = <<>>
    /\ bi = 0 /\ pg = 0 /\ todo = <<>> /\ cur = <<>> /\ batch = <<>>
    /\ unit = <<>> /\ base0 = 0 /\ fetchLog = <<>>
    /\ dbError = FALSE /\ exitCode = -1 /\ runLog = <<>>
    /\ ExIdle /\ FIdle /\ MIdle /\ SIdle /\ ShIdle

\* conn = sqlite3.connect(db_path); c = conn.cursor()
Connect ==
    /\ pc = "start"
    /\ \/ /\ conn' = "open" /\ pc' = "create" /\ UNCHANGED dbError
       \/ /\ conn' = conn /\ pc' = OnSetupError(kind) /\ dbError' = TRUE
    /\ UNCHANGED <<kind, site, base_urls, run, today, browser, tableOk, table, txn, bi, pg,
                   todo, cur, batch, unit, base0, fetchLog, exitCode, runLog,
                   exVars, fVars, mVars, sVars, shVars>>

\* c.execute("CREATE TABLE IF NOT EXISTS ..."); conn.commit()
CreateTable ==
    /\ pc = "create"
    /\ \/ /\ tableOk' = TRUE
          /\ table' = CommitRows(table, txn) /\ txn' = <<>>
          /\ pc' = IF kind = "electropunto" THEN EnterLoop(kind) ELSE "session"
          /\ bi' = IF kind = "electropunto" THEN 1 ELSE bi
          /\ UNCHANGED dbError
       \/ /\ dbError' = TRUE
          /\ txn' = OuterHandler(kind, txn)
          /\ pc' = OnSetupError(kind)
          /\ UNCHANGED <<tableOk, table, bi>>
    /\ UNCHANGED <<kind, site, base_urls, run, today, conn, browser, pg, todo, cur, batch,
                   unit, base0, fetchLog, exitCode, runLog, exVars, fVars, mVars, sVars, shVars>>

\* driver = webdriver.Firefox(options) / init_webdriver(), which may raise
\* WebDriverException; session = create_session_with_retries()
OpenSession ==
    /\ pc = "session"
    /\ \/ /\ browser' = "open" /\ pc' = EnterLoop(kind) /\ bi' = 1
       \/ /\ kind \in {"casadelaslamparas", "iluminar"}
          /\ browser' = browser /\ pc' = "finally" /\ bi' = bi
    /\ UNCHANGED <<kind, site, base_urls, run, today, conn, tableOk, table, txn, pg, todo,
                   cur, batch, unit, base0, fetchLog, dbError, exitCode, runLog,
                   exVars, fVars, mVars, sVars, shVars>>

\* 1electropunto.py, one iteration of "for url in urls": fetch, find the
\* containers, INSERT each record as it is built.
ElectropuntoPage ==
    /\ kind = "electropunto" /\ pc = "base" /\ bi <= base_urls
    /\ LET nodes == SingleNodes(kind, site, bi)
           ok    == site.failAt # bi
       IN  \E mask \in [1..Len(nodes) -> BOOLEAN] :
             LET built    == ProcessPage(kind, nodes, today)
                 inserted == ProcessFrom(kind, nodes, 1, today, Sentinel, Sentinel, mask)
             IN  /\ ok \/ mask = AllOk(nodes)
                 /\ txn' = IF ok THEN txn \o inserted ELSE txn
                 /\ unit' = IF ok THEN unit \o built ELSE unit
                 /\ dbError' = (dbError \/ (ok /\ mask # AllOk(nodes)))
                 /\ fetchLog' = Append(fetchLog,
                        Req(bi, BaseUrl(bi), "single", ok, FALSE,
                            IF ok THEN Len(inserted) ELSE 0))
    /\ pc' = AfterBase(kind, bi)
    /\ bi' = bi + 1
    /\ UNCHANGED <<kind, site, base_urls, run, today, conn, browser, tableOk, table, pg, todo,
                   cur, batch, base0, exitCode, runLog, exVars, fVars, mVars, sVars, shVars>>

\* 2casadelaslamparas.py, one iteration of "for url in urls": load and scroll
\* the page, extract, executemany and commit once per page.
CasaPage ==
    /\ kind = "casadelaslamparas" /\ pc = "base" /\ bi <= base_urls
    /\ LET nodes == SingleNodes(kind, site, bi)
           ok    == site.failAt # bi
           rows  == ProcessPage(kind, nodes, today)
       IN  IF ~ok \/ rows = <<>>
           THEN /\ fetchLog' = Append(fetchLog, Req(bi, BaseUrl(bi), "single", ok, FALSE, 0))
                /\ pc' = AfterBase(kind, bi)
                /\ UNCHANGED <<table, txn, unit, dbError>>
           ELSE /\ fetchLog' = Append(fetchLog, Req(bi, BaseUrl(bi), "single", ok, FALSE, Len(rows)))
                /\ unit' = rows
                /\ \/ \* executemany and commit succeed
                      /\ table' = CommitRows(table, txn \o rows)
                      /\ txn' = <<>>
                      /\ pc' = AfterBase(kind, bi)
                      /\ UNCHANGED dbError
                   \/ \* executemany raises after n rows
                      \E n \in 0..(Len(rows) - 1) :
                         /\ txn' = OuterHandler(kind, txn \o SubSeq(rows, 1, n))
                         /\ pc' = "finally"
                         /\ dbError' = TRUE
                         /\ UNCHANGED table
                   \/ \* commit raises
                      /\ txn' = OuterHandler(kind, txn \o rows)
                      /\ pc' = "finally"
                      /\ dbError' = TRUE
                      /\ UNCHANGED table
    /\ bi' = bi + 1
    /\ UNCHANGED <<kind, site, base_urls, run, today, conn, browser, tableOk, pg, todo, cur,
                   batch, base0, exitCode, runLog, exVars, fVars, mVars, sVars, shVars>>

\* 5electromisiones.py, one iteration of "for base_url in base_urls"
ElectromisionesPage ==
    /\ kind = "electromisiones" /\ pc = "base" /\ bi <= base_urls
    /\ LET nodes == SingleNodes(kind, site, bi)
           ok    == site.failAt # bi
           rows  == IF ok THEN ProcessPage(kind, nodes, today) ELSE <<>>
       IN  /\ batch' = Extend(batch, rows)
           /\ unit' = unit \o rows
           /\ fetchLog' = Append(fetchLog, Req(bi, BaseUrl(bi), "single", ok, FALSE, Len(rows)))
    /\ pc' = AfterBase(kind, bi)
    /\ bi' = bi + 1
    /\ UNCHANGED <<kind, site, base_urls, run, today, conn, browser, tableOk, table, txn, pg,
                   todo, cur, base0, dbError, exitCode, runLog, exVars, fVars, mVars, sVars, shVars>>

\* 3iluminar.py: for page_num in range(2, MAX_PAGE_CHECK + 1)
ProbeContinuesPast(n) == n <= MAX_PAGE_CHECK + 1
ProbeContinues(n) == n <= MAX_PAGE_CHECK

\* 3iluminar.py, page 1: "except ...: continue" and
\* "if soup.find(string=<not-found marker>): continue"
Page1SkipsOnError(page) == page.load # "ok"
Page1Skips(page) == page.load # "ok" \/ page.marker

\* 3iluminar.py, page 1 of a base URL: any exception and the page-not-found
\* marker skip the base URL (continue); otherwise its products are collected
\* and probing starts at page 2.
IluminarBase ==
    /\ kind = "iluminar" /\ pc = "base" /\ bi <= base_urls
    /\ LET page == IluminarPage(site, bi, 1)
           rows == ProcessPage(kind, page.nodes, today)
       IN  IF Page1Skips(page)
           THEN /\ fetchLog' = Append(fetchLog,
                       Req(bi, BaseUrl(bi), "page1", page.load = "ok", page.notice, 0))
                /\ pc' = AfterBase(kind, bi)
                /\ bi' = bi + 1
                /\ UNCHANGED <<cur, pg>>
           ELSE /\ fetchLog' = Append(fetchLog,
                       Req(bi, BaseUrl(bi), "page1", TRUE, page.notice, Len(rows)))
                /\ cur' = rows
                /\ pg' = 2
                /\ pc' = "probe"
                /\ bi' = bi
    /\ UNCHANGED <<kind, site, base_urls, run, today, conn, browser, tableOk, table, txn, todo,
                   batch, unit, base0, dbError, exitCode, runLog, exVars, fVars, mVars, sVars, shVars>>

\* 3iluminar.py, one iteration of the loop over the additional pages.
IluminarProbe ==
    /\ kind = "iluminar" /\ pc = "probe" /\ ProbeContinues(pg)
    /\ LET page  == IluminarPage(site, bi, pg)
           rows  == ProcessPage(kind, page.nodes, today)
           stop  == \/ page.load # "ok"
                    \/ page.marker
                    \/ rows = <<>> /\ page.notice
                    \/ rows = <<>> /\ pg > EmptyPageThreshold
           taken == IF stop THEN <<>> ELSE rows
       IN  /\ fetchLog' = Append(fetchLog,
                  Req(bi, PageUrl(bi, pg), "probe", page.load = "ok", page.notice, Len(taken)))
           /\ cur' = Extend(cur, taken)
           /\ pc' = IF stop THEN "endbase" ELSE "probe"
           /\ pg' = IF stop THEN pg ELSE pg + 1
    /\ UNCHANGED <<kind, site, base_urls, run, today, conn, browser, tableOk, table, txn, bi,
                   todo, batch, unit, base0, dbError, exitCode, runLog,
                   exVars, fVars, mVars, sVars, shVars>>

\* if current_url_products: all_products_globally.extend(current_url_products)
ExtendGlobalDropped(acc, rows) == acc
ExtendGlobal(acc, rows) == IF rows # <<>> THEN Extend(acc, rows) ELSE acc

\* 3iluminar.py, after the loop over the additional pages (left by break or
\* by exhausting the range): all_products_globally.extend(current_url_products)
IluminarEndBase ==
    /\ kind = "iluminar"
    /\ pc = "endbase" \/ (pc = "probe" /\ ~ProbeContinues(pg))
    /\ batch' = ExtendGlobal(batch, cur)
    /\ unit' = unit \o cur
    /\ cur' = <<>>
    /\ pc' = AfterBase(kind, bi)
    /\ bi' = bi + 1
    /\ UNCHANGED <<kind, site, base_urls, run, today, conn, browser, tableOk, table, txn, pg,
                   todo, base0, fetchLog, dbError, exitCode, runLog,
                   exVars, fVars, mVars, sVars, shVars>>

\* 4electrolineas.py: the page set of a base URL, the base URL plus the href
\* of every a.page-numbers link of the pagination, sorted.
PagesToScrapeUnsorted(s, b) == <<BaseUrl(b)>> \o InNavOrder({BaseUrl(b)}, Nav(s, b).links)
PagesToScrape(s, b) ==
    LET nav == Nav(s, b)
        hrefs == IF nav.by = "none" THEN {}
                 ELSE {nav.links[i].href : i \in {j \in 1..Len(nav.links) : nav.links[j].hasHref}}
    IN  SortUrls({BaseUrl(b)} \cup hrefs)

\* 4electrolineas.py, the request that looks for the pagination of a base URL;
\* a request error skips the base URL.
ElectrolineasDiscover ==
    /\ kind = "electrolineas" /\ pc = "base" /\ bi <= base_urls
    /\ LET ok == ~(bi = 1 /\ site.p1 = "error")
       IN  /\ fetchLog' = Append(fetchLog, Req(bi, BaseUrl(bi), "discover", ok, FALSE, 0))
           /\ IF ok
              THEN /\ todo' = PagesToScrape(site, bi)
                   /\ pc' = "pages"
                   /\ bi' = bi
              ELSE /\ todo' = <<>>
                   /\ pc' = AfterBase(kind, bi)
                   /\ bi' = bi + 1
    /\ UNCHANGED <<kind, site, base_urls, run, today, conn, browser, tableOk, table, txn, pg,
                   cur, batch, unit, base0, dbError, exitCode, runLog,
                   exVars, fVars, mVars, sVars, shVars>>

\* 4electrolineas.py, one iteration of "for page_url in sorted(...)"
ElectrolineasPage ==
    /\ kind = "electrolineas" /\ pc = "pages" /\ todo # <<>>
    /\ LET url  == Head(todo)
           pos  == Len(PagesToScrape(site, bi)) - Len(todo) + 1
           ok   == site.failAt # pos
           rows == IF ok THEN ProcessPage(kind, ElectrolineasNodes(site, url), today) ELSE <<>>
       IN  /\ fetchLog' = Append(fetchLog, Req(bi, url, "scrape", ok, FALSE, Len(rows)))
           /\ batch' = Extend(batch, rows)
           /\ unit' = unit \o rows
    /\ todo' = Tail(todo)
    /\ pc' = IF Tail(todo) = <<>> THEN AfterBase(kind, bi) ELSE "pages"
    /\ bi' = IF Tail(todo) = <<>> THEN bi + 1 ELSE bi
    /\ UNCHANGED <<kind, site, base_urls, run, today, conn, browser, tableOk, table, txn, pg,
                   cur, base0, dbError, exitCode, runLog, exVars, fVars, mVars, sVars, shVars>>

\* 3iluminar.py, 4electrolineas.py, 5electromisiones.py:
\* "if all_products: c.executemany(INSERT ...)" with its except sqlite3.Error,
\* which rolls back.  In 4electrolineas.py the commit follows in any case, in
\* the other two only inside the same try.
InsertAll ==
    /\ pc = "insert"
    /\ IF batch = <<>>
       THEN /\ pc' = IF kind = "electrolineas" THEN "commit" ELSE "finally"
            /\ UNCHANGED <<txn, dbError>>
       ELSE \/ /\ txn' = txn \o batch
               /\ pc' = "commit"
               /\ UNCHANGED dbError
            \/ \E n \in 0..(Len(batch) - 1) :
               /\ txn' = Rollback(txn \o SubSeq(batch, 1, n))
               /\ dbError' = TRUE
               /\ pc' = IF kind = "electrolineas" THEN "commit" ELSE "finally"
    /\ UNCHANGED <<kind, site, base_urls, run, today, conn, browser, tableOk, table, bi, pg,
                   todo, cur, batch, unit, base0, fetchLog, exitCode, runLog,
                   exVars, fVars, mVars, sVars, shVars>>

\* conn.commit() of the collected rows.  When it raises: 3iluminar.py and
\* 5electromisiones.py roll back in the inner handler, 4electrolineas.py in the
\* outer one, 1electropunto.py only logs.
Commit ==
    /\ pc = "commit"
    /\ \/ /\ table' = CommitRows(table, txn)
          /\ txn' = <<>>
          /\ UNCHANGED dbError
       \/ /\ txn' = IF kind = "electropunto" THEN txn ELSE Rollback(txn)
          /\ dbError' = TRUE
          /\ UNCHANGED table
    /\ pc' = "finally"
    /\ UNCHANGED <<kind, site, base_urls, run, today, conn, browser, tableOk, bi, pg, todo,
                   cur, batch, unit, base0, fetchLog, exitCode, runLog,
                   exVars, fVars, mVars, sVars, shVars>>

\* finally: driver.quit() where there is a driver, conn.close() where there is
\* a connection (an open transaction is lost); then the script ends.
Finally ==
    /\ pc = "finally"
    /\ browser' = IF browser = "open" /\ kind \in {"casadelaslamparas", "iluminar"}
                  THEN "closed" ELSE browser
    /\ conn' = IF conn = "open" THEN "closed" ELSE conn
    /\ txn' = <<>>
    /\ exitCode' = ExitStatus(kind, dbError)
    /\ runLog' = Append(runLog, [rows |-> Len(table) - base0, err |-> dbError,
                                 done |-> bi > base_urls])
    /\ pc' = "exited"
    /\ UNCHANGED <<kind, site, base_urls, run, today, tableOk, table, bi, pg, todo, cur,
                   batch, unit, base0, fetchLog, dbError, exVars, fVars, mVars, sVars, shVars>>

\* The script is run again, the same day or the next, against the same site
\* and the same database file.
NextRun ==
    /\ pc = "exited" /\ run < MaxRuns
    /\ run' = run + 1
    /\ \E d \in {today, today + 1} : today' = d
    /\ pc' = "start"
    /\ conn' = "none" /\ browser' = "none"
    /\ bi' = 0 /\ pg' = 0 /\ todo' = <<>> /\ cur' = <<>> /\ batch' = <<>>
    /\ unit' = <<>> /\ base0' = Len(table) /\ fetchLog' = <<>>
    /\ dbError' = FALSE /\ exitCode' = -1
    /\ UNCHANGED <<kind, site, base_urls, tableOk, table, txn, runLog, exVars, fVars, mVars, sVars, shVars>>

Next ==
    \/ Connect \/ CreateTable \/ OpenSession
    \/ ElectropuntoPage \/ CasaPage \/ ElectromisionesPage
    \/ IluminarBase \/ IluminarProbe \/ IluminarEndBase
    \/ ElectrolineasDiscover \/ ElectrolineasPage
    \/ InsertAll \/ Commit \/ Finally \/ NextRun

Spec == Init /\ [][Next]_vars

---------------------------------------------------------------------------
(* Claims about whole runs *)

\* The requests of the current run for base URL b in a given phase.
RequestsOf(b, phase) == SelectSeq(fetchLog, LAMBDA e : e.b = b /\ e.phase = phase)

\* The rows the current run has added to the table.
Appended == SubSeq(table, base0 + 1, Len(table))

IsPrefix(x, y) == Len(x) <= Len(y) /\ SubSeq(y, 1, Len(x)) = x

\* C2: iluminar requests the additional pages of a base URL as 2, 3, .., k in
\* increasing order without gaps, and k never exceeds MAX_PAGE_CHECK, whatever
\* the pages hold; the loop is left at the latest after page MAX_PAGE_CHECK.
C2_ProbeSequenceBounded ==
    kind = "iluminar" =>
        /\ \A b \in 1..base_urls :
              LET ps == RequestsOf(b, "probe")
              IN  /\ \A i \in 1..Len(ps) : ps[i].url = PageUrl(b, i + 1)
                  /\ Len(ps) + 1 <= MAX_PAGE_CHECK
        /\ pc = "probe" => pg >= 2 /\ pg <= MAX_PAGE_CHECK + 1

\* Every page up to the ceiling held products and triggered no stop condition:
\* page MAX_PAGE_CHECK was requested and accepted, and the script moved on.
C2_Witness ==
    /\ kind = "iluminar" /\ bi = 2 /\ pc = "base"
    /\ LET ps == RequestsOf(1, "probe")
       IN  /\ Len(ps) = MAX_PAGE_CHECK - 1
           /\ ps[Len(ps)].url = PageUrl(1, MAX_PAGE_CHECK)
           /\ \A i \in 1..Len(ps) : ps[i].recs > 0

\* C4 as claimed: after a run the table holds either every record of the
\* unit's batch or none of them, and none when a storage error was raised.
C4_BatchAllOrNothing ==
    pc = "exited" =>
        /\ Appended \in {<<>>, unit}
        /\ dbError => Appended = <<>>

\* C5: a table only grows, by appending: every step leaves the committed rows
\* as a prefix of the new table; and two consecutive runs that both went
\* through all base URLs without a storage error commit the same number of
\* rows, so that the second leaves twice the rows of the first.
C5_Doubling ==
    /\ \A r \in 1..(Len(runLog) - 1) :
          (~runLog[r].err /\ runLog[r].done /\ ~runLog[r + 1].err /\ runLog[r + 1].done)
              => runLog[r + 1].rows = runLog[r].rows
    /\ (pc = "exited" /\ Len(runLog) = 2 /\ \A r \in 1..2 : ~runLog[r].err /\ runLog[r].done)
          => Len(table) = 2 * runLog[1].rows

C5_AppendOnly == [][IsPrefix(table, table')]_vars /\ []C5_Doubling

\* Two clean runs on the same day against a site with products: the table holds
\* the first run's rows followed by as many again.
C5_Witness ==
    /\ Len(runLog) = 2 /\ today = 0
    /\ \A r \in 1..2 : ~runLog[r].err /\ runLog[r].done
    /\ runLog[1].rows > 0
    /\ Len(table) = 2 * runLog[1].rows
    /\ SubSeq(table, 1, runLog[1].rows) = SubSeq(table, runLog[1].rows + 1, Len(table))

\* C7 as claimed: a run that met a storage error ends with a non-zero result.
C7_StorageFailureReported ==
    (pc = "exited" /\ dbError) => exitCode # 0

\* The hrefs of the pagination links of base URL b.
NavHrefs(s, b) ==
    LET links == Nav(s, b).links
    IN  {links[i].href : i \in {j \in 1..Len(links) : links[j].hasHref}}

\* C9: for a base URL whose pagination request succeeded, electrolineas
\* requests page URLs in strictly ascending order (so none twice), only URLs of
\* the set {base URL} + {href of each pagination link}, and all of that set by
\* the time it leaves the base URL; without a pagination element that is the
\* base URL alone.
C9_PagesAreSortedLinkSet ==
    kind = "electrolineas" =>
        \A b \in 1..base_urls :
            LET sc == RequestsOf(b, "scrape")
                ds == RequestsOf(b, "discover")
                S  == {BaseUrl(b)} \cup NavHrefs(site, b)
            IN  /\ \A i, j \in 1..Len(sc) : i < j => LexLess(sc[i].url, sc[j].url)
                /\ \A i \in 1..Len(sc) : sc[i].url \in S
                /\ (bi > b /\ ds # <<>> /\ ds[1].ok) => {sc[i].url : i \in 1..Len(sc)} = S
                /\ (bi > b /\ ds # <<>> /\ ds[1].ok /\ Nav(site, b).by = "none")
                      => Len(sc) = 1 /\ sc[1].url = BaseUrl(b)
                /\ (ds # <<>> /\ ~ds[1].ok) => sc = <<>>

\* A pagination linking pages 2 and 3 (page 2 twice): base URL, page 2, page 3.
C9_Witness ==
    /\ kind = "electrolineas" /\ site.nav = "p23" /\ bi > 1
    /\ LET sc == RequestsOf(1, "scrape")
       IN  /\ Len(sc) = 3
           /\ sc[1].url = <<1>> /\ sc[2].url = <<1, 2>> /\ sc[3].url = <<1, 3>>

\* C10 as claimed: a probed page that carries the "no results" notice
\* contributes no records and is the last page requested for its base URL.
C10_NoticeStopsProbing ==
    kind = "iluminar" =>
        \A i \in 1..Len(fetchLog) :
            (fetchLog[i].phase = "probe" /\ fetchLog[i].ok /\ fetchLog[i].notice) =>
                /\ fetchLog[i].recs = 0
                /\ \A j \in (i + 1)..Len(fetchLog) : fetchLog[j].b # fetchLog[i].b

---------------------------------------------------------------------------
(* C13, C14, C16, C18, C20 *)

\* The loop over the base URLs has run to its end in the current run.
LoopDone == kind \in Kinds /\ bi > base_urls /\ pc \in {"insert", "commit", "finally", "exited"}

\* Some request after the i-th of the log asks for url.
RequestedAfter(i, url) == \E j \in (i + 1)..Len(fetchLog) : fetchLog[j].url = url

\* The page number a logged request asked for.
PageNoOf(e) ==
    IF e.phase \in {"page1", "single", "discover"} THEN 1
    ELSE IF e.phase = "probe" THEN e.url[2]
    ELSE UrlPageNo(e.url)

\* C13 as claimed: a page whose fetch fails is the only page skipped.  Once
\* the loop over the base URLs is over, after every failed request the later
\* base URLs have been requested, the later URLs of the same page set have
\* been requested (link harvest), the next page number has been requested
\* (sequential probing, below the ceiling), and with no storage error the
\* records collected from the other pages are in the table.
C13_OnlyFailedPageSkipped ==
    /\ LoopDone =>
          \A i \in 1..Len(fetchLog) :
              LET e == fetchLog[i]
              IN  ~e.ok =>
                    /\ \A b \in (e.b + 1)..base_urls : RequestedAfter(i, BaseUrl(b))
                    /\ e.phase = "scrape" =>
                          \A u \in {x \in NavHrefs(site, e.b) : LexLess(e.url, x)} :
                              RequestedAfter(i, u)
                    /\ (e.phase = "probe" /\ PageNoOf(e) < MAX_PAGE_CHECK) =>
                          RequestedAfter(i, PageUrl(e.b, PageNoOf(e) + 1))
    /\ (pc = "exited" /\ ~dbError) => Appended = unit

\* C14 as claimed: when the script has ended, the browser or HTTP session it
\* opened has been closed and so has the storage connection.
C14_ResourcesReleased ==
    pc = "exited" =>
        /\ browser \in {"none", "closed"}
        /\ conn \in {"none", "closed"}

\* The descriptions the pages of the log hold, page after page in request
\* order and container after container within a page (recs containers each).
RECURSIVE ExpectedDescs(_)
ExpectedDescs(log) ==
    IF log = <<>> THEN <<>>
    ELSE LET e == Head(log)
         IN  [j \in 1..e.recs |-> Strip(RunName(e.b, PageNoOf(e), j))]
                 \o ExpectedDescs(Tail(log))

Descs(rows) == [i \in 1..Len(rows) |-> rows[i][2]]

\* C16: the rows a run persists are in page order and, within a page, in the
\* order of the containers in the markup: the descriptions of the rows added
\* by a run without storage error are those of the pages requested, in
\* request order (base URLs in configuration order, pages as visited), each
\* page's containers first to last; the batch held in memory has that order
\* before it is inserted.
C16_OrderPreserved ==
    /\ (pc = "exited" /\ ~dbError) => Descs(Appended) = ExpectedDescs(fetchLog)
    /\ (pc = "insert" /\ kind \in {"iluminar", "electrolineas", "electromisiones"})
          => Descs(batch) = ExpectedDescs(fetchLog)

\* electrolineas over four base URLs of two pages each: twelve rows, the one
\* container of the first page, then the two of the second, then the next
\* base URL.
C16_Witness ==
    /\ kind = "electrolineas" /\ pc = "exited" /\ ~dbError /\ run = 1
    /\ site.real = 2 /\ site.nav = "p23" /\ site.failAt = 0 /\ site.p1 = "ok"
    /\ Len(Appended) = 12
    /\ Appended[1][2] = Strip(RunName(1, 1, 1))
    /\ Appended[2][2] = Strip(RunName(1, 2, 1))
    /\ Appended[3][2] = Strip(RunName(1, 2, 2))
    /\ Appended[4][2] = Strip(RunName(2, 1, 1))

\* C18 as claimed: the stop conditions of the probing in their precedence.
\* For every probed page that loaded: with the not-found marker it gives no
\* records and is the last page of its base URL, products or not; else with
\* the "no results" notice it gives no records and is the last; else with no
\* product container it is the last if its number exceeds 5, and if its
\* number is 2..5 the next page is probed.
C18_StopPrecedence ==
    kind = "iluminar" =>
        \A i \in 1..Len(fetchLog) :
            LET e    == fetchLog[i]
                n    == PageNoOf(e)
                page == IluminarPage(site, e.b, n)
                last == \A j \in (i + 1)..Len(fetchLog) : fetchLog[j].b # e.b
            IN  (e.phase = "probe" /\ e.ok) =>
                  /\ page.marker => e.recs = 0 /\ last
                  /\ (~page.marker /\ page.notice) => e.recs = 0 /\ last
                  /\ (~page.marker /\ ~page.notice /\ page.nodes = <<>>
                        /\ n > 5) => last
                  /\ (~page.marker /\ ~page.notice /\ page.nodes = <<>>
                        /\ n <= 5 /\ (bi > e.b \/ pc = "endbase"))
                        => RequestedAfter(i, PageUrl(e.b, n + 1))

\* C20 as claimed: while electrolineas processes a base URL, no URL is
\* requested twice, the base URL included.
C20_NoUrlRequestedTwice ==
    kind = "electrolineas" =>
        \A i, j \in 1..Len(fetchLog) :
            (i < j /\ fetchLog[i].b = fetchLog[j].b) => fetchLog[i].url # fetchLog[j].url

---------------------------------------------------------------------------
(* C22, C25, C26, C27 *)

\* The run ended as a success: the loop over the base URLs was left normally,
\* no error was met and the script ended with status 0.
EndedAsSuccess == pc = "exited" /\ exitCode = 0 /\ ~dbError /\ bi > base_urls

SetupFailed == dbError /\ bi = 0

\* C25: a page is requested and a browser or HTTP session is started only
\* after the connection has been opened and the table created in the same
\* run; while pages are being fetched the connection is open; and a run in
\* which sqlite3.connect or CREATE TABLE raised goes straight to its end with
\* no request made and no session started.
C25_StorageBeforeFetch ==
    /\ (fetchLog # <<>> \/ browser # "none") =>
          conn \in {"open", "closed"} /\ tableOk /\ bi >= 1
    /\ pc \in {"session", "base", "probe", "endbase", "pages"} =>
          conn = "open" /\ tableOk
    /\ SetupFailed =>
          fetchLog = <<>> /\ browser = "none" /\ pc \in {"finally", "exited"}

\* A second run of iluminar in which CREATE TABLE raised: the connection was
\* opened and closed again, nothing was requested, no browser was started,
\* and the rows of the first run are untouched.
C25_Witness ==
    /\ kind = "iluminar" /\ run = 2 /\ pc = "exited"
    /\ SetupFailed /\ conn = "closed"
    /\ fetchLog = <<>> /\ browser = "none"
    /\ table # <<>> /\ Appended = <<>>

\* The records among rows that come from base URL b.
FromBase(rows, b) ==
    SelectSeq(rows, LAMBDA r : Len(r[2]) >= 2 /\ r[2][1] = "b" /\ r[2][2] = Digit(b))

\* C26: in iluminar, when page 1 of a base URL fails to load or shows the
\* page-not-found marker, no record of that base URL is collected, stored or
\* committed, none of its additional pages is requested, and every later
\* base URL is still requested.
C26_Page1FailureSkipsBase ==
    kind = "iluminar" =>
        \A i \in 1..Len(fetchLog) :
            LET e    == fetchLog[i]
                page == IluminarPage(site, e.b, 1)
            IN  (e.phase = "page1" /\ (page.load # "ok" \/ page.marker)) =>
                  /\ e.recs = 0
                  /\ RequestsOf(e.b, "probe") = <<>>
                  /\ FromBase(cur, e.b) = <<>> /\ FromBase(batch, e.b) = <<>>
                  /\ FromBase(txn, e.b) = <<>> /\ FromBase(Appended, e.b) = <<>>
                  /\ LoopDone => \A b \in (e.b + 1)..base_urls :
                                    RequestedAfter(i, BaseUrl(b))

\* Page 1 of the first base URL shows the not-found marker around a product
\* container: nothing of it is kept and page 2 is not requested, while the
\* second base URL is processed, probed and gives all the records of the batch.
C26_Witness ==
    /\ kind = "iluminar" /\ site.p1 = "notfound" /\ pc = "insert"
    /\ base_urls = 2 /\ fetchLog # <<>>
    /\ IluminarPage(site, 1, 1).nodes # <<>>
    /\ fetchLog[1].phase = "page1" /\ fetchLog[1].b = 1 /\ fetchLog[1].recs = 0
    /\ RequestsOf(1, "probe") = <<>>
    /\ RequestsOf(2, "probe") # <<>>
    /\ batch # <<>> /\ FromBase(batch, 2) = batch

\* The records of pages 1..n of base URL b, as iluminar extracts them.
RECURSIVE PagesRecords(_, _)
PagesRecords(b, n) ==
    IF n = 0 THEN <<>>
    ELSE PagesRecords(b, n - 1) \o ProcessPage("iluminar", IluminarPage(site, b, n).nodes, today)

\* Probing of base URL b was ended by a break on its last requested page.
Stopped(b) ==
    LET ps == RequestsOf(b, "probe")
    IN  ps # <<>> /\ ps[Len(ps)].recs = 0 /\ (bi > b \/ pc = "endbase")

\* What base URL b, once left, must have contributed: nothing if page 1 was
\* skipped, pages 1..N-1 if probing was ended on page N, else every page.
Kept(b) ==
    LET ps == RequestsOf(b, "probe")
    IN  IF ps = <<>> THEN <<>>
        ELSE IF Stopped(b) THEN PagesRecords(b, Len(ps))
        ELSE PagesRecords(b, Len(ps) + 1)

RECURSIVE KeptUpTo(_)
KeptUpTo(b) == IF b = 0 THEN <<>> ELSE KeptUpTo(b - 1) \o Kept(b)

\* C27: in iluminar, when probing is ended on page N (stop condition, timeout
\* or browser error), the records of pages 1..N-1 of that base URL are still
\* held, together with those of the earlier base URLs; all of them are in the
\* batch when the loop over the base URLs is over, and a run without storage
\* error has inserted and committed them all.
C27_RecordsRetainedOnStop ==
    kind = "iluminar" =>
        /\ (pc = "endbase" /\ Stopped(bi)) =>
              /\ cur = PagesRecords(bi, Len(RequestsOf(bi, "probe")))
              /\ batch = KeptUpTo(bi - 1)
        /\ pc = "insert" => batch = KeptUpTo(base_urls)
        /\ (pc = "exited" /\ ~dbError /\ bi > base_urls) => Appended = KeptUpTo(base_urls)

\* Two real pages per base URL and a timeout on page 3 of each: the run ends
\* with the six records of pages 1 and 2 of both base URLs committed.
C27_Witness ==
    /\ kind = "iluminar" /\ site.tail = "timeout" /\ site.real = 2 /\ site.p1 = "ok"
    /\ base_urls = 2 /\ pc = "exited" /\ ~dbError /\ run = 1
    /\ \A b \in 1..2 :
          LET ps == RequestsOf(b, "probe")
          IN  Len(ps) = 2 /\ ~ps[2].ok /\ ps[2].url = PageUrl(b, 3)
    /\ Len(table) = 6
    /\ table = PagesRecords(1, 2) \o PagesRecords(2, 2)

---------------------------------------------------------------------------
(* SpecSheet: one call of sanitize_sheet_name(name, existing_names, counter) *)
(* of 6listas_en_excel.py                                                    *)

invalid_chars == {"[", "]", "*", ":", "?", "/", "\\"}

\* for char in invalid_chars: name = name.replace(char, '_')
ReplaceInvalid(s) == [i \in 1..Len(s) |-> IF s[i] \in invalid_chars THEN "_" ELSE s[i]]

\* name[:30]
SheetCut == 30

\* original_name[:28]
SuffixCut == 28

\* The longest sheet name Excel accepts.
ExcelLimit == 31

\* str(n) of a natural number
RECURSIVE Decimal(_)
Decimal(n) == IF n < 10 THEN <<Digit(n)>> ELSE Decimal(n \div 10) \o <<Digit(n % 10)>>

\* f"Table_{counter}"
TableName(c) == <<"T", "a", "b", "l", "e", "_">> \o Decimal(c)

\* f"{original_name[:28]}_{suffix}"
Suffixed(orig, n) == Slice(orig, SuffixCut) \o <<"_">> \o Decimal(n)

\* The name as it stands when the uniqueness loop is entered.
Sanitized(s, c) ==
    LET t == Slice(ReplaceInvalid(s), SheetCut)
    IN  IF t = <<>> THEN TableName(c) ELSE t

\* Table names passed to the function: empty, short, with invalid characters,
\* of invalid characters only, and of lengths around the two cuts.
InputNames ==
    {<<>>, <<"a">>, <<"a", "/", "b">>, <<"[", "]", "*", ":", "?", "/", "\\">>,
     Rep("a", SuffixCut - 1), Rep("a", SuffixCut), Rep("a", SuffixCut + 1),
     Rep("a", SheetCut), Rep("a", SheetCut + 1),
     Rep("a", SheetCut - 1) \o <<":", "b", "c">>}

\* The name itself and its first n suffixed variants.
Taken(base, n) == {base} \cup {Suffixed(base, k) : k \in 1..n}

\* Sets of sheet names already in use: none, unrelated ones, the name itself
\* with its first n suffixed variants, and such a set with a gap.
ExistingSets(base) ==
    {{}, {<<"z">>}, Taken(base, 3) \ {Suffixed(base, 2)}}
    \cup {Taken(base, n) : n \in {0, 1, 8, 9, 10, MaxTaken - 2, MaxTaken - 1, MaxTaken}}

ShInit ==
    /\ shPc = "call"
    /\ table_name \in InputNames
    /\ counter \in {0, 12}
    /\ existing_names \in ExistingSets(Sanitized(table_name, counter))
    /\ sheet_name = table_name
    /\ original_name = <<>> /\ suffix = 0
    /\ ExIdle /\ RunIdle /\ FIdle /\ MIdle /\ SIdle

\* Lines 14-26: replace the invalid characters, cut to 30 characters, name an
\* empty result after the counter, and set up the uniqueness loop.
ShSanitize ==
    /\ shPc = "call"
    /\ sheet_name' = Sanitized(sheet_name, counter)
    /\ original_name' = sheet_name'
    /\ suffix' = 1
    /\ shPc' = "loop"
    /\ UNCHANGED <<table_name, existing_names, counter, exVars, runVars, fVars, mVars, sVars>>

\* Lines 27-29: one iteration of "while name in existing_names"
ShRename ==
    /\ shPc = "loop"
    /\ sheet_name \in existing_names
    /\ sheet_name' = Suffixed(original_name, suffix)
    /\ suffix' = suffix + 1
    /\ UNCHANGED <<shPc, table_name, existing_names, counter, original_name,
                   exVars, runVars, fVars, mVars, sVars>>

\* Line 30: return name
ShReturn ==
    /\ shPc = "loop"
    /\ sheet_name \notin existing_names
    /\ shPc' = "returned"
    /\ UNCHANGED <<table_name, sheet_name, existing_names, counter, original_name, suffix,
                   exVars, runVars, fVars, mVars, sVars>>

ShNext == ShSanitize \/ ShRename \/ ShReturn

SpecSheet == ShInit /\ [][ShNext]_vars

---------------------------------------------------------------------------
(* C28 *)

\* C28 as claimed: the name sanitize_sheet_name returns is not empty, is not
\* in existing_names, contains none of the characters [ ] * : ? / \ and is at
\* most 31 characters long.
C28_SheetNameValid ==
    shPc = "returned" =>
        /\ sheet_name # <<>>
        /\ sheet_name \notin existing_names
        /\ \A i \in 1..Len(sheet_name) : sheet_name[i] \notin invalid_chars
        /\ Len(sheet_name) <= ExcelLimit

=============================================================================
